---- MODULE Spec2Model ----
(***************************************************************************)
(* A model of the unit-value library (src/src/unit-value.js and            *)
(* src/src/utils.js): UnitValue construction, parse, parseString,          *)
(* getValuesAndUnits and the arithmetic helpers.                           *)
(*                                                                         *)
(* Text is a sequence of one-character strings.  A JavaScript number is a  *)
(* record [k, m]: k = "fin" with m the magnitude in units of 1/Scale       *)
(* (decimal fixed point, rounded to nearest where binary64 would round),   *)
(* or k in {"inf", "ninf", "nan"}.  A JavaScript value is a record         *)
(* [t, n, s, r]: t the runtime shape, n the number, s the text and r the   *)
(* object identity (a heap index for a UnitValue, an identity for a boxed  *)
(* String).  UnitValue instances live in heap, a sequence of               *)
(* [value, units] records.                                                 *)
(***************************************************************************)
EXTENDS Integers, Sequences, FiniteSets

VARIABLES heap, pre, op, arg1, arg2, argu, res, shown

vars == <<heap, pre, op, arg1, arg2, argu, res, shown>>

(* ------------------------------ bounds --------------------------------- *)

\* number of UnitValue instances the caller constructs and keeps
MaxObjs == 2

\* largest whole magnitude the caller passes as a number
MaxNum == 2

\* fractional decimal digits a number carries
FracDigits == 2

Scale == 10 ^ FracDigits

(* ------------------------------ numbers -------------------------------- *)

Fin(m) == [k |-> "fin", m |-> m]

Infinity == [k |-> "inf", m |-> 0]

NegInfinity == [k |-> "ninf", m |-> 0]

NaN == [k |-> "nan", m |-> 0]

Abs(x) == IF x < 0 THEN -x ELSE x

Sign(x) == IF x < 0 THEN -1 ELSE IF x = 0 THEN 0 ELSE 1

\* x / y rounded to the nearest integer, y # 0
RoundDiv(x, y) == Sign(x) * Sign(y) * ((2 * Abs(x) + Abs(y)) \div (2 * Abs(y)))

\* sign of a number: -1, 0, 1 (0 for NaN)
NumSign(a) ==
  CASE a.k = "fin" -> Sign(a.m)
    [] a.k = "inf" -> 1
    [] a.k = "ninf" -> -1
    [] OTHER -> 0

SignedInf(s) == IF s > 0 THEN Infinity ELSE IF s < 0 THEN NegInfinity ELSE NaN

\* value1 + value2
NumAdd(a, b) ==
  CASE a.k = "nan" \/ b.k = "nan" -> NaN
    [] a.k = "fin" /\ b.k = "fin" -> Fin(a.m + b.m)
    [] a.k = "fin" -> b
    [] b.k = "fin" -> a
    [] OTHER -> IF a.k = b.k THEN a ELSE NaN

NumNeg(a) ==
  CASE a.k = "fin" -> Fin(-a.m)
    [] a.k = "inf" -> NegInfinity
    [] a.k = "ninf" -> Infinity
    [] OTHER -> NaN

\* value1 - value2
NumSub(a, b) == NumAdd(a, NumNeg(b))

\* value1 * value2
NumMul(a, b) ==
  CASE a.k = "nan" \/ b.k = "nan" -> NaN
    [] a.k = "fin" /\ b.k = "fin" -> Fin(RoundDiv(a.m * b.m, Scale))
    [] OTHER -> SignedInf(NumSign(a) * NumSign(b))

\* value1 / value2
NumDiv(a, b) ==
  CASE a.k = "nan" \/ b.k = "nan" -> NaN
    [] a.k = "fin" /\ b.k = "fin" ->
         IF b.m = 0 THEN SignedInf(Sign(a.m)) ELSE Fin(RoundDiv(a.m * Scale, b.m))
    [] a.k = "fin" -> Fin(0)
    [] b.k = "fin" -> SignedInf(NumSign(a) * (IF b.m < 0 THEN -1 ELSE 1))
    [] OTHER -> NaN

(* ------------------------------- text ---------------------------------- *)

Digits == <<"0", "1", "2", "3", "4", "5", "6", "7", "8", "9">>

IsDigit(c) == \E d \in 1..10 : Digits[d] = c

DigitVal(c) == (CHOOSE d \in 1..10 : Digits[d] = c) - 1

\* the characters the regular-expression dot does not match
IsLineTerminator(c) == c \in {"\n", "\r"}

RECURSIVE NatToText(_)
NatToText(x) ==
  IF x < 10 THEN <<Digits[x + 1]>>
  ELSE NatToText(x \div 10) \o <<Digits[(x % 10) + 1]>>

\* the fraction f / 10^w as w digits without trailing zeros
RECURSIVE FracToText(_, _)
FracToText(f, w) ==
  IF f = 0 \/ w = 0 THEN <<>>
  ELSE <<Digits[(f \div (10 ^ (w - 1))) + 1]>> \o FracToText(f % (10 ^ (w - 1)), w - 1)

\* Number.prototype.toString
NumToText(a) ==
  CASE a.k = "inf" -> <<"I", "n", "f", "i", "n", "i", "t", "y">>
    [] a.k = "ninf" -> <<"-", "I", "n", "f", "i", "n", "i", "t", "y">>
    [] a.k = "nan" -> <<"N", "a", "N">>
    [] OTHER ->
         LET mag == Abs(a.m)
             body == NatToText(mag \div Scale) \o
                     (IF mag % Scale = 0 THEN <<>>
                      ELSE <<".">> \o FracToText(mag % Scale, FracDigits))
         IN IF a.m < 0 THEN <<"-">> \o body ELSE body

\* length of the longest run of digits of s starting at position i
RECURSIVE DigitRun(_, _)
DigitRun(s, i) ==
  IF i <= Len(s) /\ IsDigit(s[i]) THEN 1 + DigitRun(s, i + 1) ELSE 0

\* length of the prefix of s matched by \d+\.?\d* (0 when \d+ fails)
NumberPrefix(s) ==
  LET d1 == DigitRun(s, 1)
  IN IF d1 = 0 THEN 0
     ELSE IF d1 < Len(s) /\ s[d1 + 1] = "."
          THEN d1 + 1 + DigitRun(s, d1 + 2)
          ELSE d1

\* s.match(/^(\d+\.?\d*)$/) is not null
numberMatch(s) == NumberPrefix(s) > 0 /\ NumberPrefix(s) = Len(s)

\* a pattern whose unit group may be empty
unitValueMatch_OptionalUnits(s) ==
  LET p == NumberPrefix(s)
  IN /\ p > 0
     /\ p < Len(s) => ~IsDigit(s[p + 1]) /\ s[p + 1] # "."
     /\ \A i \in (p + 2)..Len(s) : ~IsLineTerminator(s[i])

\* s.match(/^(\d+\.?\d*)([^\d\.].*)$/) is not null
unitValueMatch(s) ==
  LET p == NumberPrefix(s)
  IN /\ p > 0
     /\ p < Len(s)
     /\ ~IsDigit(s[p + 1])
     /\ s[p + 1] # "."
     /\ \A i \in (p + 2)..Len(s) : ~IsLineTerminator(s[i])

\* the two capture groups of unitValueMatch
MatchGroup1(s) == SubSeq(s, 1, NumberPrefix(s))

\* the unit group with one separating whitespace character left out
MatchGroup2_Trim(s) ==
  LET p == NumberPrefix(s)
  IN IF s[p + 1] \in {" ", "\n", "\r"} THEN SubSeq(s, p + 2, Len(s)) ELSE SubSeq(s, p + 1, Len(s))

MatchGroup2(s) == SubSeq(s, NumberPrefix(s) + 1, Len(s))

RECURSIVE DigitsToNat(_)
DigitsToNat(s) ==
  IF s = <<>> THEN 0
  ELSE 10 * DigitsToNat(SubSeq(s, 1, Len(s) - 1)) + DigitVal(s[Len(s)])

\* the first w digits of s, padded with zeros, as a natural number
RECURSIVE FracToNat(_, _)
FracToNat(s, w) ==
  IF w = 0 THEN 0
  ELSE (IF s = <<>> THEN 0 ELSE DigitVal(s[1]) * (10 ^ (w - 1)))
       + FracToNat(IF s = <<>> THEN <<>> ELSE Tail(s), w - 1)

\* parseFloat that stops at the decimal point
parseFloat_IntOnly(s) == Fin(DigitsToNat(SubSeq(s, 1, DigitRun(s, 1))) * Scale)

\* parseFloat of a text of the form \d+\.?\d*
parseFloat(s) ==
  LET d1 == DigitRun(s, 1)
      frac == IF d1 < Len(s) THEN SubSeq(s, d1 + 2, Len(s)) ELSE <<>>
      next == IF Len(frac) > FracDigits THEN DigitVal(frac[FracDigits + 1]) ELSE 0
  IN Fin(DigitsToNat(SubSeq(s, 1, d1)) * Scale + FracToNat(frac, FracDigits)
         + (IF next >= 5 THEN 1 ELSE 0))

(* --------------------------- JavaScript values -------------------------- *)

JSVal(t, n, s, r) == [t |-> t, n |-> n, s |-> s, r |-> r]

Undefined == JSVal("undefined", Fin(0), <<>>, 0)

Null == JSVal("null", Fin(0), <<>>, 0)

True == JSVal("boolean", Fin(0), <<"t", "r", "u", "e">>, 0)

\* an object that is none of Number, String, UnitValue (new Date())
DateObj == JSVal("object", Fin(0), <<>>, 0)

\* a primitive number
NumV(n) == JSVal("number", n, <<>>, 0)

\* new Number(n)
BoxNum(n) == JSVal("Number", n, <<>>, 0)

\* a primitive string
StrV(s) == JSVal("string", Fin(0), s, 0)

\* new String(s); id tells one wrapper object from another
BoxStr(s, id) == JSVal("String", Fin(0), s, id)

\* a reference to the UnitValue instance heap[r]
UVRef(r) == JSVal("UnitValue", Fin(0), <<>>, r)

\* v.toString() of a number, Number, string or String
ToText(v) == IF v.t \in {"number", "Number"} THEN NumToText(v.n) ELSE v.s

\* a units check that takes every units argument as given
IsNullish_Never(v) == FALSE

\* units == null
IsNullish(v) == v.t \in {"undefined", "null"}

\* if (units)
Truthy(v) ==
  CASE v.t \in {"undefined", "null"} -> FALSE
    [] v.t = "string" -> v.s # <<>>
    [] v.t = "number" -> v.n.k # "nan" /\ ~(v.n.k = "fin" /\ v.n.m = 0)
    [] OTHER -> TRUE

\* a === b for two units values (primitive strings by text, objects by identity)
StrictEq(a, b) ==
  CASE a.t = "string" /\ b.t = "string" -> a.s = b.s
    [] a.t = "String" /\ b.t = "String" -> a.r = b.r
    [] a.t = "undefined" /\ b.t = "undefined" -> TRUE
    [] OTHER -> FALSE

(* ------------------------------ outcomes ------------------------------- *)

NoObj == [value |-> Fin(0), units |-> Undefined]

\* a call that threw: kind is "TypeError" or "UnitsError"; h is the heap it leaves
Throw(kind, h) == [kind |-> kind, h |-> h, ref |-> 0, obj |-> NoObj]

\* a call that returned a UnitValue: ref > 0 is the instance heap[ref],
\* ref = 0 a newly constructed instance with the fields of obj
Return(h, ref, obj) == [kind |-> "ok", h |-> h, ref |-> ref, obj |-> obj]

\* the fields of the UnitValue an outcome returned, read from heap h
Fields(h, o) == IF o.ref > 0 THEN h[o.ref] ELSE o.obj

(* ------------------------------ UnitValue ------------------------------ *)

\* a constructor that also takes a boxed Number as the value
UnitValueCtor_Unbox(h, value, units) ==
  IF value.t \notin {"number", "Number"} THEN Throw("TypeError", h)
  ELSE IF IsNullish(units) THEN Throw("TypeError", h)
  ELSE Return(h, 0, [value |-> value.n, units |-> StrV(ToText(units))])

\* new UnitValue(value, units)
UnitValueCtor(h, value, units) ==
  IF value.t # "number" THEN Throw("TypeError", h)
  ELSE IF IsNullish(units) THEN Throw("TypeError", h)
  ELSE Return(h, 0, [value |-> value.n, units |-> StrV(ToText(units))])

\* UnitValue.parseString(s)
parseString(h, s) ==
  IF s.t # "string" THEN Throw("TypeError", h)
  ELSE IF ~unitValueMatch(s.s) THEN Throw("TypeError", h)
  ELSE UnitValueCtor(h, NumV(parseFloat(MatchGroup1(s.s))), StrV(MatchGroup2(s.s)))

\* a type dispatch that lets every other value through as it is
ParseType_PassThrough(v) ==
  CASE v.t = "Number" -> "number"
    [] v.t = "String" -> "string"
    [] v.t \in {"number", "string"} -> v.t
    [] OTHER -> "UnitValue"

\* the type that UnitValue.parse switches on ("bad": throws before the switch)
ParseType(v) ==
  CASE v.t = "Number" -> "number"
    [] v.t = "String" -> "string"
    [] v.t = "UnitValue" -> "UnitValue"
    [] v.t \in {"object", "null"} -> "bad"
    [] OTHER -> v.t

\* parse that never overrides the units
OverrideUnits_Skip(o, units) == o

\* parse that overrides the units of a newly parsed instance only
OverrideUnits_FreshOnly(o, units) ==
  IF o.kind # "ok" \/ ~Truthy(units) \/ o.ref > 0 THEN o
  ELSE Return(o.h, 0, [o.obj EXCEPT !.units = units])

\* parse that assigns the units argument whether or not it is given
OverrideUnits_Always(o, units) ==
  IF o.kind # "ok" THEN o
  ELSE IF o.ref > 0
       THEN Return([o.h EXCEPT ![o.ref].units = units], o.ref, o.obj)
       ELSE Return(o.h, 0, [o.obj EXCEPT !.units = units])

\* parse that relabels a copy of an existing instance
OverrideUnits_Copy(o, units) ==
  IF o.kind # "ok" \/ ~Truthy(units) THEN o
  ELSE Return(o.h, 0, [Fields(o.h, o) EXCEPT !.units = units])

\* if (units) v.units = units; return v   -- on the outcome o of the cases above
OverrideUnits(o, units) ==
  IF o.kind # "ok" \/ ~Truthy(units) THEN o
  ELSE IF o.ref > 0
       THEN Return([o.h EXCEPT ![o.ref].units = units], o.ref, o.obj)
       ELSE Return(o.h, 0, [o.obj EXCEPT !.units = units])

\* UnitValue.parse(v, units)
parse(h, v, units) ==
  LET type == ParseType(v)
      text == ToText(v)
  IN CASE type \in {"number", "string"} ->
            IF numberMatch(text)
            THEN IF IsNullish(units) THEN Throw("UnitsError", h)
                 ELSE OverrideUnits(parseString(h, StrV(text \o ToText(units))), units)
            ELSE OverrideUnits(parseString(h, StrV(text)), units)
       [] type = "UnitValue" -> OverrideUnits(Return(h, v.r, NoObj), units)
       [] OTHER -> Throw("TypeError", h)

\* valueOf()
valueOf(q) == q.value

\* toString that puts a space between the value and the units
toString_Spaced(q) == NumToText(q.value) \o <<" ">> \o ToText(q.units)

\* toString()
toString(q) == NumToText(q.value) \o ToText(q.units)

\* toArray()
toArray(q) == <<q.value, q.units>>

(* -------------------------- getValuesAndUnits -------------------------- *)

\* Utils.toggle
toggle(v) == (v % 2) + 1

\* an outcome of getValuesAndUnits
GvuThrow(kind, h) ==
  [kind |-> kind, h |-> h, value1 |-> Fin(0), value2 |-> Fin(0), units |-> Undefined]

GvuReturn(h, value1, value2, units) ==
  [kind |-> "ok", h |-> h, value1 |-> value1, value2 |-> value2, units |-> units]

\* getValuesAndUnits without the final comparison of the units
GvuFinish_NoCheck(h, vals) ==
  GvuReturn(h, Fields(h, vals[0]).value, Fields(h, vals[1]).value, Fields(h, vals[0]).units)

\* the final units check and the returned record; vals[i] are the outcomes
\* kept in values[i], read through the heap h as the code reads them
GvuFinish(h, vals) ==
  IF ~StrictEq(Fields(h, vals[0]).units, Fields(h, vals[1]).units)
  THEN GvuThrow("UnitsError", h)
  ELSE GvuReturn(h, Fields(h, vals[0]).value, Fields(h, vals[1]).value,
                 Fields(h, vals[0]).units)

\* values[retry[0]] = o, the outcome of the second parse of that value
GvuRetried(vals, i, o) ==
  IF o.kind # "ok" THEN GvuThrow(o.kind, o.h)
  ELSE GvuFinish(o.h, [vals EXCEPT ![i] = o])

\* values[j] is an instance (it is undefined when j is no index of values or
\* when the parse of v[j] failed)
GvuDefined(vals, j) == j \in {0, 1} /\ vals[j].kind = "ok"

\* the retry of the one value that failed for missing units
GvuRetry(h, v, vals, i) ==
  IF ~GvuDefined(vals, toggle(i))
  THEN GvuThrow("TypeError", h)   \* reading .units of undefined throws
  ELSE GvuRetried(vals, i, parse(h, v[i], Fields(h, vals[toggle(i)]).units))

\* the array values after the loop: the outcome of the parse of each input
GvuValues(p0, p1) == [i \in {0, 1} |-> IF i = 0 THEN p0 ELSE p1]

\* the array retry after the loop: the indices that failed with a UnitsError
GvuRetryList(vals) ==
  (IF vals[0].kind = "UnitsError" THEN <<0>> ELSE <<>>)
    \o (IF vals[1].kind = "UnitsError" THEN <<1>> ELSE <<>>)

\* the code after the loop, retrying the first failure even when both failed
GvuAfterLoop_RetryFirst(h, v, vals, retry) ==
  IF Len(retry) >= 1 THEN GvuRetry(h, v, vals, retry[1])
  ELSE GvuFinish(h, vals)

\* the code after the loop: if (retry.length) ... and the final check
GvuAfterLoop(h, v, vals, retry) ==
  IF Len(retry) > 1 THEN GvuThrow("UnitsError", h)
  ELSE IF Len(retry) = 1 THEN GvuRetry(h, v, vals, retry[1])
  ELSE GvuFinish(h, vals)

\* the second iteration, taking every failure of parse for missing units
GvuSecond_CatchAll(v, p0, p1) ==
  GvuAfterLoop(p1.h, v,
               GvuValues(p0, IF p1.kind = "ok" THEN p1 ELSE Throw("UnitsError", p1.h)),
               GvuRetryList(GvuValues(p0, IF p1.kind = "ok" THEN p1
                                          ELSE Throw("UnitsError", p1.h))))

\* the second iteration of the loop, p1 being the outcome of parse(v[1], u)
GvuSecond(v, p0, p1) ==
  IF p1.kind = "TypeError" THEN GvuThrow("TypeError", p1.h)
  ELSE GvuAfterLoop(p1.h, v, GvuValues(p0, p1), GvuRetryList(GvuValues(p0, p1)))

\* the first iteration of the loop, p0 being the outcome of parse(v[0], u)
GvuFirst(v, u, p0) ==
  IF p0.kind = "TypeError" THEN GvuThrow("TypeError", p0.h)
  ELSE GvuSecond(v, p0, parse(p0.h, v[1], u))

\* getValuesAndUnits(v1, v2, u)
getValuesAndUnits(h, v1, v2, u) ==
  GvuFirst(GvuValues(v1, v2), u, parse(h, v1, u))

(* ------------------ the calls of parse in getValuesAndUnits ------------ *)

\* one call UnitValue.parse(v[i], units)
ParseCall(i, units) == [i |-> i, units |-> units]

\* a retry of every input that failed for missing units
GvuCallsRetry_Each(h, vals, retry) == [k \in 1..Len(retry) |-> ParseCall(retry[k], Undefined)]

\* the call of parse in the retry: none when no input or both inputs failed,
\* and none when reading values[toggle(retry[0])].units throws
GvuCallsRetry(h, vals, retry) ==
  IF Len(retry) = 1 /\ GvuDefined(vals, toggle(retry[1]))
  THEN <<ParseCall(retry[1], Fields(h, vals[toggle(retry[1])]).units)>>
  ELSE <<>>

\* the calls from the second iteration on, p1 the outcome of parse(v[1], u)
GvuCallsSecond(u, p0, p1) ==
  <<ParseCall(1, u)>>
    \o (IF p1.kind = "TypeError" THEN <<>>
        ELSE GvuCallsRetry(p1.h, GvuValues(p0, p1), GvuRetryList(GvuValues(p0, p1))))

\* the calls from the first iteration on, p0 the outcome of parse(v[0], u)
GvuCallsFirst(v, u, p0) ==
  <<ParseCall(0, u)>>
    \o (IF p0.kind = "TypeError" THEN <<>>
        ELSE GvuCallsSecond(u, p0, parse(p0.h, v[1], u)))

\* the calls of UnitValue.parse that getValuesAndUnits(v1, v2, u) makes, in order
GvuCalls(h, v1, v2, u) == GvuCallsFirst(GvuValues(v1, v2), u, parse(h, v1, u))

(* ------------------------------ arithmetic ----------------------------- *)

Apply(f, a, b) ==
  CASE f = "add" -> NumAdd(a, b)
    [] f = "subtract" -> NumSub(a, b)
    [] f = "multiply" -> NumMul(a, b)
    [] f = "divide" -> NumDiv(a, b)

\* an operation that returns the first magnitude whatever the operator
ArithOn_FirstValue(f, g) ==
  IF g.kind # "ok" THEN Throw(g.kind, g.h)
  ELSE UnitValueCtor(g.h, NumV(g.value1), g.units)

\* return new UnitValue(value1 op value2, u), g being the outcome of
\* getValuesAndUnits
ArithOn(f, g) ==
  IF g.kind # "ok" THEN Throw(g.kind, g.h)
  ELSE UnitValueCtor(g.h, NumV(Apply(f, g.value1, g.value2)), g.units)

\* UnitValue.add / subtract / multiply / divide (static)
Arith(f, h, v1, v2, units) == ArithOn(f, getValuesAndUnits(h, v1, v2, units))

(* ------------------------------- inputs -------------------------------- *)

\* longest unit label enumerated
MaxUnitLen == 2

UnitChars == {"p", "x", " ", "5", ".", "\n"}

Texts(chars, n) == UNION {[1..k -> chars] : k \in 0..n}

UnitTexts == Texts(UnitChars, MaxUnitLen)

px == <<"p", "x">>

\* 0, 1, .., MaxNum and 2.5
Nums == {Fin(n * Scale) : n \in 0..MaxNum} \cup {Fin((5 * Scale) \div 2)}

\* texts in plain decimal notation: the text of a number, "5.", "05", "2.50"
NumTexts ==
  {NumToText(n) : n \in Nums} \cup {<<"5", ".">>, <<"0", "5">>, <<"2", ".", "5", "0">>}

\* texts <number><units>
UnitStrings ==
  {n \o u : n \in {<<"1">>, <<"2", ".", "5">>}, u \in UnitTexts \ {<<>>}}

\* texts that are neither a number nor <number><units>
BadTexts == {<<>>, <<"a">>, <<".", "5">>, <<"-", "1">>, <<"1", ".", "2", ".", "5", "x">>}

Refs(h) == {UVRef(r) : r \in 1..Len(h)}

\* values of no accepted shape
Junk == {Undefined, Null, True, DateObj}

\* what the caller passes as v while it holds no instance
RichValues ==
  {NumV(n) : n \in Nums} \cup {BoxNum(n) : n \in Nums}
    \cup {StrV(t) : t \in NumTexts \cup UnitStrings \cup BadTexts}
    \cup {BoxStr(t, 1) : t \in {<<"2">>, <<"2", "p", "x">>, <<"a">>}}
    \cup Junk

\* what the caller passes as v alongside the instances it holds
CoreValues ==
  {NumV(Fin(Scale)), NumV(Fin(0)), StrV(<<"2">>), StrV(<<"2", "x">>), StrV(<<"a">>)}

ValueInputs(h) == Refs(h) \cup (IF h = <<>> THEN RichValues ELSE CoreValues)

\* what the caller passes to parseString while it holds no instance
RichStrings ==
  {StrV(n \o u) : n \in NumTexts, u \in UnitTexts} \cup {StrV(t) : t \in BadTexts}
    \cup {BoxStr(<<"1">>, 1), BoxStr(<<"2", "p", "x">>, 1), NumV(Fin(2 * Scale))} \cup Junk

StringInputs(h) == Refs(h) \cup (IF h = <<>> THEN RichStrings ELSE CoreValues)

\* what the caller passes as v1 and v2 while it holds no instance
RichPairValues ==
  {NumV(Fin(Scale)), NumV(Fin((5 * Scale) \div 2)), BoxNum(Fin(2 * Scale)), NumV(Fin(0)),
   NumV(Fin(2 * Scale)), StrV(<<"2">>), StrV(<<"1", "p", "x">>), StrV(<<"2", ".", "5", "x">>),
   StrV(<<"1", " ", "p", "x">>), BoxStr(<<"2", "p", "x">>, 1), StrV(<<"a">>), Undefined}

PairInputs(h) == Refs(h) \cup (IF h = <<>> THEN RichPairValues ELSE CoreValues)

\* the explicit units argument
RichUnits ==
  {Undefined} \cup {StrV(u) : u \in UnitTexts} \cup {BoxStr(px, 1), BoxStr(<<>>, 1)}

CoreUnits == {Undefined, StrV(<<"x">>), StrV(<<>>), BoxStr(px, 1)}

UnitsInputs(h) == IF h = <<>> THEN RichUnits ELSE CoreUnits

\* the arguments of new UnitValue(value, units)
CtorValues ==
  {NumV(Fin(n * Scale)) : n \in 1..MaxNum}
    \cup {StrV(<<"2">>), BoxNum(Fin(Scale)), True, Null, Undefined}

CtorUnits == {StrV(px), StrV(<<"x">>), StrV(<<>>), BoxStr(px, 1), Undefined}

(* ------------------------------- results ------------------------------- *)

Result(kind, ref, value, value2, units, text) ==
  [kind |-> kind, ref |-> ref, value |-> value, value2 |-> value2,
   units |-> units, text |-> text]

NoResult == Result("none", 0, Fin(0), Fin(0), Undefined, <<>>)

\* the result of a call that returns a UnitValue or throws, from its outcome
\* o; the returned instance's fields are read from the heap the call leaves
UVResult(o) ==
  IF o.kind = "ok"
  THEN Result("UnitValue", o.ref, Fields(o.h, o).value, Fin(0), Fields(o.h, o).units, <<>>)
  ELSE Result(o.kind, 0, Fin(0), Fin(0), Undefined, <<>>)

\* the result of getValuesAndUnits from its outcome g
GvuResult(g) ==
  IF g.kind = "ok"
  THEN Result("values", 0, g.value1, g.value2, g.units, <<>>)
  ELSE Result(g.kind, 0, Fin(0), Fin(0), Undefined, <<>>)

(* ----------------------------- state machine --------------------------- *)

Init ==
  /\ heap = <<>>
  /\ pre = <<>>
  /\ op = "idle"
  /\ arg1 = Undefined
  /\ arg2 = Undefined
  /\ argu = Undefined
  /\ res = NoResult
  /\ shown = NoObj

\* the caller is between two calls
Idle == op = "idle"

\* the record of a call: its name, its arguments, the heap before it; a call
\* starts when the caller is idle, or follows up on the result of the last one;
\* shown is the instance whose toString() text is in res (NoObj otherwise)
Called(name, a1, a2, u, sh) ==
  /\ Idle \/ name \in {"toString", "reparse"}
  /\ shown' = sh
  /\ op' = name
  /\ arg1' = a1
  /\ arg2' = a2
  /\ argu' = u
  /\ pre' = heap

\* the call ends with the outcome o of an operation that returns a UnitValue
Ends(o) == heap' = o.h /\ res' = UVResult(o)

\* the call ends with the outcome g of getValuesAndUnits
GvuEnds(g) == heap' = g.h /\ res' = GvuResult(g)

\* the caller keeps the instance that the constructor returned
Constructed(o) ==
  /\ heap' = IF o.kind = "ok" THEN Append(heap, o.obj) ELSE heap
  /\ res' = IF o.kind = "ok"
            THEN Result("UnitValue", Len(heap) + 1, o.obj.value, Fin(0), o.obj.units, <<>>)
            ELSE UVResult(o)

\* q = new UnitValue(value, units); the caller keeps q
New(value, units) ==
  /\ Len(heap) < MaxObjs
  /\ Constructed(UnitValueCtor(heap, value, units))
  /\ Called("new", value, Undefined, units, NoObj)

\* UnitValue.parse(v, units)
Parse(v, units) ==
  /\ Ends(parse(heap, v, units))
  /\ Called("parse", v, Undefined, units, NoObj)

\* UnitValue.parseString(s)
ParseString(s) ==
  /\ Ends(parseString(heap, s))
  /\ Called("parseString", s, Undefined, Undefined, NoObj)

\* getValuesAndUnits(v1, v2, u)
GetValuesAndUnits(v1, v2, u) ==
  /\ GvuEnds(getValuesAndUnits(heap, v1, v2, u))
  /\ Called("getValuesAndUnits", v1, v2, u, NoObj)

\* UnitValue.add(v1, v2, units) and the other three static operations
Static(f, v1, v2, units) ==
  /\ Ends(Arith(f, heap, v1, v2, units))
  /\ Called(f, v1, v2, units, NoObj)

Add(v1, v2, units) == Static("add", v1, v2, units)

Subtract(v1, v2, units) == Static("subtract", v1, v2, units)

Multiply(v1, v2, units) == Static("multiply", v1, v2, units)

Divide(v1, v2, units) == Static("divide", v1, v2, units)

\* self.add(v, units) and the other three instance operations
Instance(f, self, v, units) ==
  /\ Ends(Arith(f, heap, UVRef(self), v, units))
  /\ Called("this." \o f, UVRef(self), v, units, NoObj)

InstAdd(self, v, units) == Instance("add", self, v, units)

InstSubtract(self, v, units) == Instance("subtract", self, v, units)

InstMultiply(self, v, units) == Instance("multiply", self, v, units)

InstDivide(self, v, units) == Instance("divide", self, v, units)

\* the instance a method is called on: heap[r], or for r = 0 the instance
\* that the last call returned
Target(r) == IF r = 0 THEN [value |-> res.value, units |-> res.units] ELSE heap[r]

Targets ==
  IF Idle THEN 1..Len(heap) ELSE IF res.kind = "UnitValue" THEN {0} ELSE {}

\* q.toString()
ToString(r) ==
  /\ r \in Targets
  /\ res' = Result("text", r, Fin(0), Fin(0), Undefined, toString(Target(r)))
  /\ heap' = heap
  /\ Called("toString", IF r = 0 THEN Undefined ELSE UVRef(r), Undefined, Undefined, Target(r))

\* UnitValue.parseString(q.toString()), on the text ToString returned
Reparse ==
  /\ res.kind = "text"
  /\ Ends(parseString(heap, StrV(res.text)))
  /\ Called("reparse", StrV(res.text), Undefined, Undefined, shown)

\* q.toArray()
ToArray(r) ==
  /\ r \in 1..Len(heap)
  /\ res' = Result("array", r, toArray(heap[r])[1], Fin(0), toArray(heap[r])[2], <<>>)
  /\ heap' = heap
  /\ Called("toArray", UVRef(r), Undefined, Undefined, NoObj)

\* q.valueOf()
ValueOf(r) ==
  /\ r \in 1..Len(heap)
  /\ res' = Result("number", r, valueOf(heap[r]), Fin(0), Undefined, <<>>)
  /\ heap' = heap
  /\ Called("valueOf", UVRef(r), Undefined, Undefined, NoObj)

\* the caller is done with the result of the last call
Done ==
  /\ op # "idle"
  /\ op' = "idle"
  /\ arg1' = Undefined
  /\ arg2' = Undefined
  /\ argu' = Undefined
  /\ res' = NoResult
  /\ shown' = NoObj
  /\ pre' = heap
  /\ heap' = heap

Next ==
  \/ Idle /\ \E value \in CtorValues, units \in CtorUnits : New(value, units)
  \/ Idle /\ \E v \in ValueInputs(heap), units \in UnitsInputs(heap) : Parse(v, units)
  \/ Idle /\ \E s \in StringInputs(heap) : ParseString(s)
  \/ Idle /\ \E v1 \in PairInputs(heap), v2 \in PairInputs(heap), u \in UnitsInputs(heap) :
       GetValuesAndUnits(v1, v2, u)
  \/ Idle /\ \E v1 \in PairInputs(heap), v2 \in PairInputs(heap), u \in UnitsInputs(heap) :
       Add(v1, v2, u)
  \/ Idle /\ \E v1 \in PairInputs(heap), v2 \in PairInputs(heap), u \in UnitsInputs(heap) :
       Subtract(v1, v2, u)
  \/ Idle /\ \E v1 \in PairInputs(heap), v2 \in PairInputs(heap), u \in UnitsInputs(heap) :
       Multiply(v1, v2, u)
  \/ Idle /\ \E v1 \in PairInputs(heap), v2 \in PairInputs(heap), u \in UnitsInputs(heap) :
       Divide(v1, v2, u)
  \/ Idle /\ \E self \in 1..Len(heap), v \in PairInputs(heap), u \in UnitsInputs(heap) :
       InstAdd(self, v, u)
  \/ Idle /\ \E self \in 1..Len(heap), v \in PairInputs(heap), u \in UnitsInputs(heap) :
       InstSubtract(self, v, u)
  \/ Idle /\ \E self \in 1..Len(heap), v \in PairInputs(heap), u \in UnitsInputs(heap) :
       InstMultiply(self, v, u)
  \/ Idle /\ \E self \in 1..Len(heap), v \in PairInputs(heap), u \in UnitsInputs(heap) :
       InstDivide(self, v, u)
  \/ \E r \in 0..MaxObjs : ToString(r)
  \/ Reparse
  \/ Idle /\ \E r \in 1..MaxObjs : ToArray(r)
  \/ Idle /\ \E r \in 1..MaxObjs : ValueOf(r)
  \/ Done

Spec == Init /\ [][Next]_vars

(* ------------------------- vocabulary of the claims -------------------- *)

\* v is a bare number: a number, Number, string or String whose text is
\* digits, an optional decimal point and optional fractional digits
IsBare(v) == v.t \in {"number", "Number", "string", "String"} /\ numberMatch(ToText(v))

\* v is a string or String of the form <number><units>
IsUnitString(v) == v.t \in {"string", "String"} /\ unitValueMatch(v.s)

IsQuantity(v) == v.t = "UnitValue"

\* a unit label that parseString can read back: not empty, its first character
\* neither a digit nor ".", no line terminator after the first character
PlainUnitText(u) ==
  /\ u # <<>>
  /\ ~IsDigit(u[1])
  /\ u[1] # "."
  /\ \A i \in 2..Len(u) : ~IsLineTerminator(u[i])

PlainUnits(u) == u.t = "string" /\ PlainUnitText(u.s)

\* the magnitude and the unit label that the input v of a call carries, a
\* Quantity being read in the heap before the call
MagnitudeOf(v) ==
  CASE IsQuantity(v) -> pre[v.r].value
    [] v.t \in {"number", "Number"} -> v.n
    [] IsUnitString(v) -> parseFloat(MatchGroup1(v.s))
    [] OTHER -> parseFloat(v.s)

UnitsOf(v) == IF IsQuantity(v) THEN pre[v.r].units ELSE StrV(MatchGroup2(v.s))

\* v carries units of its own
HasUnits(v) == IsUnitString(v) \/ (IsQuantity(v) /\ PlainUnits(pre[v.r].units))

InstanceOps == {"this.add", "this.subtract", "this.multiply", "this.divide"}

FnOf(name) ==
  CASE name = "this.add" -> "add"
    [] name = "this.subtract" -> "subtract"
    [] name = "this.multiply" -> "multiply"
    [] name = "this.divide" -> "divide"
    [] OTHER -> name

\* the Quantity a call returned
Returned == [value |-> res.value, units |-> res.units]

(* -------------------------------- claims ------------------------------- *)

\* C1: for a Quantity q and a bare non-negative number n passed with no
\* explicit units, q.add(n), q.subtract(n), q.multiply(n) and q.divide(n)
\* return a Quantity with q's units and the value q.value op n.
C1_InstanceBareNumber ==
  (/\ op \in InstanceOps
   /\ arg2.t = "number" /\ IsBare(arg2)
   /\ argu = Undefined
   /\ PlainUnits(pre[arg1.r].units))
  => /\ res.kind = "UnitValue"
     /\ res.units = pre[arg1.r].units
     /\ res.value = Apply(FnOf(op), pre[arg1.r].value, arg2.n)

\* C2: getValuesAndUnits(v1, v2) with no explicit unit, one input bare and
\* the other carrying units, succeeds whichever position the bare input is
\* in: units is the unit of the unit-bearing input, value1 and value2 are the
\* magnitudes of v1 and v2 in that order.
C2_InferEitherPosition ==
  (/\ op = "getValuesAndUnits"
   /\ argu = Undefined
   /\ \/ IsBare(arg1) /\ HasUnits(arg2)
      \/ HasUnits(arg1) /\ IsBare(arg2))
  => /\ res.kind = "values"
     /\ res.units = (IF IsBare(arg1) THEN UnitsOf(arg2) ELSE UnitsOf(arg1))
     /\ res.value = MagnitudeOf(arg1)
     /\ res.value2 = MagnitudeOf(arg2)

\* an input that parse accepts on its own shape
Acceptable(v) == IsBare(v) \/ IsUnitString(v) \/ IsQuantity(v)

\* C3 as stated: for two acceptable inputs and a non-empty explicit units
\* text u, getValuesAndUnits(v1, v2, u) returns, with units equal to u.
C3_ExplicitUnitsAlwaysReturn ==
  (/\ op = "getValuesAndUnits"
   /\ Acceptable(arg1) /\ Acceptable(arg2)
   /\ argu.t = "string" /\ argu.s # <<>>)
  => res.kind = "values" /\ res.units = argu

\* C3 amended: for two acceptable inputs and a non-empty explicit units text
\* u, getValuesAndUnits(v1, v2, u) never fails with a UnitsError; whenever it
\* returns, units equal u; and it returns whenever u is a label that
\* parseString can read back.
C3_ExplicitUnitsOverride ==
  (/\ op = "getValuesAndUnits"
   /\ Acceptable(arg1) /\ Acceptable(arg2)
   /\ argu.t = "string" /\ argu.s # <<>>)
  => /\ res.kind # "UnitsError"
     /\ res.kind = "values" => res.units = argu
     /\ PlainUnits(argu) => res.kind = "values"

\* two unit-bearing strings with different units, relabelled by a third
C3_Witness ==
  /\ op = "getValuesAndUnits"
  /\ IsUnitString(arg1) /\ IsUnitString(arg2)
  /\ MatchGroup2(arg1.s) # MatchGroup2(arg2.s)
  /\ argu.t = "string" /\ argu.s # <<>>
  /\ argu.s # MatchGroup2(arg1.s) /\ argu.s # MatchGroup2(arg2.s)
  /\ res.kind = "values" /\ res.units = argu

\* C4 as stated: for a bare number n and a non-empty explicit units text u,
\* parse(n, u) returns a Quantity with the value of n and the units u, whose
\* toString() is the text of n followed by u.
C4_BareWithAnyUnits ==
  (/\ op = "parse"
   /\ IsBare(arg1)
   /\ argu.t = "string" /\ argu.s # <<>>)
  => /\ res.kind = "UnitValue"
     /\ res.value = MagnitudeOf(arg1)
     /\ res.units = argu
     /\ toString(Returned) = ToText(arg1) \o argu.s

\* C4 amended: for a bare number n and an explicit units text u that
\* parseString can read back, parse(n, u) returns a Quantity with the value
\* of n and the units u; its toString() is the default text of that value
\* followed by u, which is the text of n when n is a number or Number.
C4_BareWithPlainUnits ==
  (/\ op = "parse"
   /\ IsBare(arg1)
   /\ PlainUnits(argu))
  => /\ res.kind = "UnitValue"
     /\ res.value = MagnitudeOf(arg1)
     /\ res.units = argu
     /\ toString(Returned) = NumToText(MagnitudeOf(arg1)) \o argu.s
     /\ arg1.t \in {"number", "Number"} => toString(Returned) = ToText(arg1) \o argu.s

\* parse(2.5, " p"): a number with a fraction and a label that starts with a space
C4_Witness ==
  /\ op = "parse"
  /\ arg1 = NumV(Fin((5 * Scale) \div 2))
  /\ argu = StrV(<<" ", "p">>)
  /\ res.kind = "UnitValue"
  /\ res.ref = 0
  /\ toString(Returned) = <<"2", ".", "5", " ", "p">>

\* the text s is the plain decimal text n followed by the unit text u
Decomposes(s, n, u) == numberMatch(n) /\ u # <<>> /\ s = n \o u

C7_MismatchedUnits ==
  (/\ op = "getValuesAndUnits"
   /\ argu = Undefined
   /\ IsUnitString(arg1) \/ IsQuantity(arg1)
   /\ IsUnitString(arg2) \/ IsQuantity(arg2)
   /\ ToText(UnitsOf(arg1)) # ToText(UnitsOf(arg2)))
  => res.kind = "UnitsError"

\* a unit-bearing string against a Quantity with another unit
C7_Witness ==
  /\ op = "getValuesAndUnits"
  /\ argu = Undefined
  /\ IsUnitString(arg1) /\ IsQuantity(arg2)
  /\ MatchGroup2(arg1.s) = <<"x">>
  /\ pre[arg2.r].units = StrV(px)
  /\ res.kind = "UnitsError"
  /\ heap = pre

\* C8: getValuesAndUnits(v1, v2) with no explicit unit fails with a
\* UnitsError whenever both inputs are bare numbers or bare numeric strings.
C8_NoUnitsAnywhere ==
  (/\ op = "getValuesAndUnits"
   /\ argu = Undefined
   /\ IsBare(arg1) /\ IsBare(arg2))
  => res.kind = "UnitsError"

\* a number against a numeric string
C8_Witness ==
  /\ op = "getValuesAndUnits"
  /\ argu = Undefined
  /\ arg1.t = "number" /\ IsBare(arg1)
  /\ arg2.t = "string" /\ IsBare(arg2)
  /\ res.kind = "UnitsError"

\* an input that parse rejects with a TypeError whatever the units: a value
\* of no accepted shape, or a text that is neither a bare number nor
\* <number><units>
Malformed(v) ==
  \/ v.t \in {"undefined", "null", "boolean", "object"}
  \/ v.t \in {"number", "Number", "string", "String"} /\ ~IsBare(v)
       /\ ~unitValueMatch(ToText(v))

\* C9: in getValuesAndUnits, when parsing either input fails with an error
\* that is not a UnitsError, the TypeError reaches the caller, in either
\* position, also when the other input is a bare number with missing units.
C9_TypeErrorPropagates ==
  (/\ op = "getValuesAndUnits"
   /\ Malformed(arg1) \/ Malformed(arg2))
  => res.kind = "TypeError"

\* (6, "c")-like: the first input failed for missing units, the second is malformed
C9_Witness ==
  /\ op = "getValuesAndUnits"
  /\ argu = Undefined
  /\ arg1.t = "number" /\ IsBare(arg1)
  /\ arg2 = StrV(<<"a">>)
  /\ res.kind = "TypeError"

\* C10 as stated: for a Quantity x and every text u given as the explicit
\* units, parse(x, u) returns a Quantity whose units are u and whose value is
\* the value of x before the call.
C10_OverrideAnyText ==
  (/\ op = "parse"
   /\ IsQuantity(arg1)
   /\ argu.t \in {"string", "String"})
  => /\ res.kind = "UnitValue"
     /\ StrictEq(res.units, argu)
     /\ res.value = pre[arg1.r].value

\* C10 amended: the same for every non-empty text u.
C10_OverrideNonEmpty ==
  (/\ op = "parse"
   /\ IsQuantity(arg1)
   /\ argu.t \in {"string", "String"} /\ argu.s # <<>>)
  => /\ res.kind = "UnitValue"
     /\ StrictEq(res.units, argu)
     /\ res.value = pre[arg1.r].value

\* parse(x, "x") on a Quantity x with units "px"
C10_Witness ==
  /\ op = "parse"
  /\ IsQuantity(arg1)
  /\ pre[arg1.r].units = StrV(px)
  /\ argu = StrV(<<"x">>)
  /\ res.kind = "UnitValue"
  /\ res.units = argu
  /\ res.value = pre[arg1.r].value

\* C11: for every Quantity x, parse(x) with no explicit units returns a
\* Quantity equal to x in value and units (the instance x itself), and leaves
\* the value and the units of x, and of every other Quantity, unchanged.
C11_ParseQuantityAsIs ==
  (/\ op = "parse"
   /\ IsQuantity(arg1)
   /\ argu = Undefined)
  => /\ res.kind = "UnitValue"
     /\ res.value = pre[arg1.r].value
     /\ res.units = pre[arg1.r].units
     /\ heap = pre

\* parse(x) on the second Quantity the caller holds, its units "px"
C11_Witness ==
  /\ op = "parse"
  /\ arg1 = UVRef(2)
  /\ argu = Undefined
  /\ pre[2].units = StrV(px)
  /\ res.kind = "UnitValue"
  /\ res.ref = 2
  /\ res.units = StrV(px)
  /\ heap = pre

\* C12: parse(v) with no units argument, v a number, Number, string or String
\* whose text is a bare number, fails with a UnitsError and never with a
\* TypeError; the same input with a units argument supplied does not fail
\* with a UnitsError.
C12_BareNeedsUnits ==
  (/\ op = "parse"
   /\ IsBare(arg1))
  => /\ argu = Undefined => res.kind = "UnitsError"
     /\ argu # Undefined => res.kind # "UnitsError"

\* parse(new String("2")): a boxed String holding a bare number, no units
C12_Witness ==
  /\ op = "parse"
  /\ arg1 = BoxStr(<<"2">>, 1)
  /\ argu = Undefined
  /\ res.kind = "UnitsError"
  /\ heap = pre

\* C13: parse(v, units) fails with a TypeError, for any units argument,
\* whenever v is not a number, Number, string, String or Quantity (undefined,
\* null, a boolean, a Date); it returns no value, raises no UnitsError and
\* modifies no Quantity.
C13_UnsupportedType ==
  (/\ op = "parse"
   /\ arg1.t \in {"undefined", "null", "boolean", "object"})
  => /\ res.kind = "TypeError"
     /\ heap = pre

\* parse(new Date(), "px")
C13_Witness ==
  /\ op = "parse"
  /\ arg1 = DateObj
  /\ argu = StrV(px)
  /\ res.kind = "TypeError"

IsWhitespace(c) == c \in {" ", "\n", "\r"}

\* the text s has the form <number><optional single whitespace><units>, the
\* unit label not empty and starting with no digit, "." or whitespace
SeparatedForm(s) ==
  LET p == NumberPrefix(s)
      q == IF p < Len(s) /\ IsWhitespace(s[p + 1]) THEN p + 1 ELSE p
  IN /\ p > 0
     /\ q < Len(s)
     /\ ~IsDigit(s[q + 1]) /\ s[q + 1] # "." /\ ~IsWhitespace(s[q + 1])

\* C14: parseString fails with a TypeError for every string that is not
\* <number><optional single whitespace><units>: no leading number, only a
\* number, a unit label that after at most one separating whitespace begins
\* with a digit or ".", or two or more whitespace characters between the
\* magnitude and the unit.
C14_RejectsMalformedStrings ==
  (/\ op = "parseString"
   /\ arg1.t = "string"
   /\ ~SeparatedForm(arg1.s))
  => res.kind = "TypeError"

\* C15 as stated: new UnitValue(value, units) fails with a TypeError whenever
\* value is not a primitive number, and succeeds storing value unchanged
\* whenever value is a primitive number.
C15_CtorAnyUnits ==
  op = "new"
  => /\ arg1.t # "number" => res.kind = "TypeError" /\ heap = pre
     /\ arg1.t = "number" => res.kind = "UnitValue" /\ res.value = arg1.n

\* C15 amended: new UnitValue(value, units) fails with a TypeError whenever
\* value is not a primitive number, and whenever value is a primitive number
\* and units is a string or String it succeeds, storing value unchanged and
\* the text of units; with units undefined it fails with a TypeError.
C15_CtorWithUnits ==
  op = "new"
  => /\ arg1.t # "number" => res.kind = "TypeError" /\ heap = pre
     /\ (arg1.t = "number" /\ argu.t \in {"string", "String"})
          => /\ res.kind = "UnitValue"
             /\ res.value = arg1.n
             /\ heap = Append(pre, [value |-> arg1.n, units |-> StrV(argu.s)])
     /\ argu = Undefined => res.kind = "TypeError" /\ heap = pre

\* new UnitValue(2, new String("px"))
C15_Witness ==
  /\ op = "new"
  /\ arg1 = NumV(Fin(2 * Scale))
  /\ argu = BoxStr(px, 1)
  /\ res.kind = "UnitValue"
  /\ heap[res.ref] = [value |-> Fin(2 * Scale), units |-> StrV(px)]

StaticOps == {"add", "subtract", "multiply", "divide"}

\* the result of the operation f is a new Quantity computed from the outcome
\* g of the reconciliation of its operands
ComputedFrom(f, g) ==
  g.kind = "ok"
  => /\ res.kind = "UnitValue"
     /\ res.ref = 0
     /\ res.value = Apply(f, g.value1, g.value2)
     /\ res.units = StrV(ToText(g.units))

\* C16: for operands v1 and v2 that reconcile successfully, each static
\* operation add, subtract, multiply and divide returns a newly constructed
\* Quantity, none of the operand instances, whose value is value1 op value2
\* of the reconciled magnitudes and whose units are the reconciled unit; for
\* acceptable operands and an explicit label this is the label and the
\* magnitudes are those of v1 and v2; add(1, 2, "px") has value 3, units "px".
C16_StaticArithmetic ==
  op \in StaticOps
  => /\ ComputedFrom(op, getValuesAndUnits(pre, arg1, arg2, argu))
     /\ (Acceptable(arg1) /\ Acceptable(arg2) /\ PlainUnits(argu))
          => /\ res.kind = "UnitValue"
             /\ res.ref = 0
             /\ res.value = Apply(op, MagnitudeOf(arg1), MagnitudeOf(arg2))
             /\ res.units = argu
     /\ (op = "add" /\ arg1 = NumV(Fin(Scale)) /\ arg2 = NumV(Fin(2 * Scale))
           /\ argu = StrV(px))
          => res.value = Fin(3 * Scale) /\ res.units = StrV(px)

\* UnitValue.add(1, 2, "px")
C16_Witness ==
  /\ op = "add"
  /\ arg1 = NumV(Fin(Scale))
  /\ arg2 = NumV(Fin(2 * Scale))
  /\ argu = StrV(px)
  /\ res.kind = "UnitValue"
  /\ res.ref = 0
  /\ res.value = Fin(3 * Scale)
  /\ res.units = StrV(px)

ParsingOps == {"parse", "parseString", "reparse"}

\* C17 as stated: every Quantity returned by a successful call of parse or
\* parseString, for any accepted input and any units argument, has a
\* non-empty units label, parse applied to a directly constructed Quantity
\* included.
C17_ParsedUnitsAlways ==
  (op \in ParsingOps /\ res.kind = "UnitValue")
  => ToText(res.units) # <<>>

\* C17 amended: every Quantity returned by a successful call of parseString,
\* or of parse with units absent or a primitive string or a non-empty boxed
\* String, has a non-empty units label, unless the input is a Quantity whose
\* label is empty and units is absent or empty: parse then returns that
\* Quantity with its empty label.
C17_ParsedUnitsNonEmpty ==
  (/\ op \in ParsingOps
   /\ res.kind = "UnitValue"
   /\ ~(argu.t = "String" /\ argu.s = <<>>)
   /\ (IsQuantity(arg1) /\ ~Truthy(argu)) => ToText(pre[arg1.r].units) # <<>>)
  => ToText(res.units) # <<>>

\* parse(x, "x") on a Quantity x constructed with the empty label
C17_Witness ==
  /\ op = "parse"
  /\ IsQuantity(arg1)
  /\ pre[arg1.r].units = StrV(<<>>)
  /\ argu = StrV(<<"x">>)
  /\ res.kind = "UnitValue"
  /\ res.units = StrV(<<"x">>)

\* C18: over any sequence of constructions, parse calls and arithmetic
\* operations, the units field of every Quantity, kept or returned, is a
\* primitive text and never a boxed String, whether the caller gave the units
\* as a string or as a String; consequently two Quantities with the same unit
\* text reconcile.
C18_UnitsArePrimitive ==
  /\ \A i \in 1..Len(heap) : heap[i].units.t = "string"
  /\ res.kind = "UnitValue" => res.units.t = "string"
  /\ (/\ op = "getValuesAndUnits"
      /\ IsQuantity(arg1) /\ IsQuantity(arg2)
      /\ argu = Undefined
      /\ ToText(pre[arg1.r].units) = ToText(pre[arg2.r].units))
     => res.kind = "values"

\* C19: when parse(x, u) is called with an existing Quantity x and a
\* non-empty explicit unit u, the returned object is the instance x itself;
\* after the call x.units is u and x.value is unchanged; no other Quantity is
\* modified.
C19_ParseRelabelsInPlace ==
  (/\ op = "parse"
   /\ IsQuantity(arg1)
   /\ argu.t \in {"string", "String"} /\ argu.s # <<>>)
  => /\ res.kind = "UnitValue"
     /\ res.ref = arg1.r
     /\ heap = [pre EXCEPT ![arg1.r].units = argu]

\* parse(y, "x") on the second of two Quantities labelled "px"
C19_Witness ==
  /\ op = "parse"
  /\ arg1 = UVRef(2)
  /\ argu = StrV(<<"x">>)
  /\ pre[1].units = StrV(px) /\ pre[2].units = StrV(px)
  /\ res.ref = 2
  /\ heap[2] = [value |-> pre[2].value, units |-> StrV(<<"x">>)]
  /\ heap[1] = pre[1]

\* the index in values of the one input that failed for missing units
FailedIndex == IF IsBare(arg1) THEN 0 ELSE 1

\* C20: the index toggle maps the two-element index space of reconciliation
\* to its opposite, toggle(0) = 1 and toggle(1) = 0: for the index i of the
\* input that failed, toggle(i) is the index of the other input in values.
C20_ToggleIsOpposite ==
  (/\ op = "getValuesAndUnits"
   /\ argu = Undefined
   /\ \/ IsBare(arg1) /\ HasUnits(arg2)
      \/ HasUnits(arg1) /\ IsBare(arg2))
  => /\ toggle(FailedIndex) = 1 - FailedIndex
     /\ toggle(0) = 1
     /\ toggle(1) = 0

\* the input of the call at index i of values
InputAt(i) == IF i = 0 THEN arg1 ELSE arg2

\* the sequence c of parse calls has the shape of one pass and one retry: the
\* inputs are parsed in order with the units argument; a third call is made
\* only when no units were given and exactly one input is bare, on that
\* input, with the units the other input carries; its error is the call's
CallsWellFormed(c) ==
  /\ Len(c) \in 1..3
  /\ c[1] = ParseCall(0, argu)
  /\ Len(c) >= 2 => c[2] = ParseCall(1, argu)
  /\ Len(c) = 3
       => /\ argu = Undefined
          /\ IsBare(arg1) # IsBare(arg2)
          /\ c[3] = ParseCall(FailedIndex, UnitsOf(InputAt(1 - FailedIndex)))
          /\ parse(pre, InputAt(c[3].i), c[3].units).kind # "ok"
               => res.kind = parse(pre, InputAt(c[3].i), c[3].units).kind

C22_OperandsUntouched ==
  (/\ op \in StaticOps \cup InstanceOps
   /\ IsQuantity(arg1) /\ IsQuantity(arg2)
   /\ res.kind = "UnitValue")
  => /\ heap[arg1.r] = pre[arg1.r]
     /\ heap[arg2.r] = pre[arg2.r]
     /\ res.ref = 0
     /\ Truthy(argu) => ToText(res.units) = ToText(argu)

\* the Quantity v, if v is one, is after the call as it was before it
Untouched(v) == IsQuantity(v) => heap[v.r] = pre[v.r]

\* C23: when getValuesAndUnits(v1, v2, u), or an arithmetic operation built
\* on it, fails with a TypeError or a UnitsError, every Quantity passed in as
\* v1 or v2 has the same value and units after the failed call as before it.
C23_UnchangedOnError ==
  (/\ op \in {"getValuesAndUnits"} \cup StaticOps \cup InstanceOps
   /\ res.kind \in {"TypeError", "UnitsError"})
  => Untouched(arg1) /\ Untouched(arg2)

====
